---------------------------- MODULE Spec2Model ----------------------------
(***************************************************************************)
(* jobpulse: the job aggregation route (its three variants), the adapters  *)
(* of the four upstream job boards, the classifiers and the filter         *)
(* pipelines of the server route and of the client pages.                  *)
(*                                                                         *)
(* Strings are sequences of one-character strings, so that toLowerCase and *)
(* includes are computed as the code computes them.  JavaScript values are *)
(* records tagged with their type (field t).                               *)
(***************************************************************************)
EXTENDS Integers, Sequences, FiniteSets, TLC

(***************************** bounds **************************************)
\* upstream records in one upstream body (after RemoteOK's header record)
MaxJobs == 1
\* jobs in an input sequence of the filter pipelines
MaxLen == 2

(************************* keyword lists ***********************************)
\* route.ts: data-related keywords
DATA_KEYWORDS ==
  << <<"d","a","t","a">>,
     <<"a","n","a","l","y","s","t">>,
     <<"a","n","a","l","y","t","i","c","s">>,
     <<"s","c","i","e","n","t","i","s","t">>,
     <<"s","c","i","e","n","c","e">>,
     <<"e","n","g","i","n","e","e","r">>,
     <<"s","q","l">>,
     <<"p","y","t","h","o","n">>,
     <<"t","a","b","l","e","a","u">>,
     <<"p","o","w","e","r"," ","b","i">>,
     <<"e","x","c","e","l">>,
     <<"s","t","a","t","i","s","t","i","c","s">>,
     <<"m","a","c","h","i","n","e"," ","l","e","a","r","n","i","n","g">>,
     <<"m","l">>,
     <<"a","i">>,
     <<"d","a","t","a","b","a","s","e">>,
     <<"e","t","l">>,
     <<"b","i"," ">>,
     <<"b","u","s","i","n","e","s","s"," ","i","n","t","e","l","l","i","g","e","n","c","e">>,
     <<"v","i","s","u","a","l","i","z","a","t","i","o","n">>,
     <<"r","e","p","o","r","t","i","n","g">>,
     <<"i","n","s","i","g","h","t","s">> >>

\* route.ts: entry level indicators
ENTRY_LEVEL_KEYWORDS ==
  << <<"j","u","n","i","o","r">>,
     <<"e","n","t","r","y">>,
     <<"a","s","s","o","c","i","a","t","e">>,
     <<"g","r","a","d","u","a","t","e">>,
     <<"i","n","t","e","r","n">>,
     <<"t","r","a","i","n","e","e">>,
     <<"e","a","r","l","y"," ","c","a","r","e","e","r">>,
     <<"n","e","w"," ","g","r","a","d">>,
     <<"f","r","e","s","h","e","r">>,
     <<"l","e","v","e","l"," ","1">>,
     <<"l","1">>,
     <<"i"," ">>,
     <<"i",",">>,
     <<"0","-","2"," ","y","e","a","r","s">>,
     <<"1","-","2"," ","y","e","a","r","s">>,
     <<"0","-","1"," ","y","e","a","r">>,
     <<"n","o"," ","e","x","p","e","r","i","e","n","c","e">> >>

\* route.ts: senior indicators to exclude
SENIOR_KEYWORDS ==
  << <<"s","e","n","i","o","r">>,
     <<"s","r",".">>,
     <<"s","r"," ">>,
     <<"l","e","a","d">>,
     <<"p","r","i","n","c","i","p","a","l">>,
     <<"s","t","a","f","f">>,
     <<"m","a","n","a","g","e","r">>,
     <<"d","i","r","e","c","t","o","r">>,
     <<"h","e","a","d"," ","o","f">>,
     <<"v","p">>,
     <<"c","h","i","e","f">>,
     <<"5","+"," ","y","e","a","r","s">>,
     <<"7","+"," ","y","e","a","r","s">>,
     <<"1","0","+"," ","y","e","a","r","s">> >>

\* client pages: DATA_KEYWORDS
CLIENT_DATA_KEYWORDS ==
  << <<"d","a","t","a">>,
     <<"a","n","a","l","y","s","t">>,
     <<"a","n","a","l","y","t","i","c","s">>,
     <<"s","c","i","e","n","t","i","s","t">>,
     <<"s","c","i","e","n","c","e">>,
     <<"s","q","l">>,
     <<"p","y","t","h","o","n">>,
     <<"t","a","b","l","e","a","u">>,
     <<"p","o","w","e","r"," ","b","i">>,
     <<"e","x","c","e","l">>,
     <<"s","t","a","t","i","s","t","i","c","s">>,
     <<"m","a","c","h","i","n","e"," ","l","e","a","r","n","i","n","g">>,
     <<"m","l">>,
     <<"a","i">>,
     <<"d","a","t","a","b","a","s","e">>,
     <<"e","t","l">>,
     <<"b","i">>,
     <<"b","u","s","i","n","e","s","s"," ","i","n","t","e","l","l","i","g","e","n","c","e">>,
     <<"v","i","s","u","a","l","i","z","a","t","i","o","n">>,
     <<"r","e","p","o","r","t","i","n","g">>,
     <<"i","n","s","i","g","h","t","s">>,
     <<"e","n","g","i","n","e","e","r">>,
     <<"w","a","r","e","h","o","u","s","e">>,
     <<"p","i","p","e","l","i","n","e">>,
     <<"s","p","a","r","k">>,
     <<"h","a","d","o","o","p">> >>

\* client pages: SENIOR_KEYWORDS
CLIENT_SENIOR_KEYWORDS ==
  << <<"s","e","n","i","o","r">>,
     <<"s","r",".">>,
     <<"s","r"," ">>,
     <<"l","e","a","d">>,
     <<"p","r","i","n","c","i","p","a","l">>,
     <<"s","t","a","f","f">>,
     <<"m","a","n","a","g","e","r">>,
     <<"d","i","r","e","c","t","o","r">>,
     <<"h","e","a","d"," ","o","f">>,
     <<"v","p">>,
     <<"c","h","i","e","f">>,
     <<"a","r","c","h","i","t","e","c","t">> >>

\* client page (US variant): US location keywords
US_KEYWORDS ==
  << <<"u","s","a">>,
     <<"u","n","i","t","e","d"," ","s","t","a","t","e","s">>,
     <<"u","s"," ">>,
     <<" ","u","s">>,
     <<"u",".","s",".">>,
     <<"a","m","e","r","i","c","a">>,
     <<"n","e","w"," ","y","o","r","k">>,
     <<"c","a","l","i","f","o","r","n","i","a">>,
     <<"t","e","x","a","s">>,
     <<"f","l","o","r","i","d","a">>,
     <<"r","e","m","o","t","e"," ","u","s">>,
     <<"c","h","i","c","a","g","o">>,
     <<"l","o","s"," ","a","n","g","e","l","e","s">>,
     <<"s","a","n"," ","f","r","a","n","c","i","s","c","o">>,
     <<"s","e","a","t","t","l","e">>,
     <<"b","o","s","t","o","n">>,
     <<"d","e","n","v","e","r">>,
     <<"a","u","s","t","i","n">>,
     <<"a","t","l","a","n","t","a">>,
     <<"m","i","a","m","i">>,
     <<"d","a","l","l","a","s">>,
     <<"p","h","o","e","n","i","x">>,
     <<"a","n","y","w","h","e","r","e">>,
     <<"w","o","r","l","d","w","i","d","e">>,
     <<"n","o","r","t","h"," ","a","m","e","r","i","c","a">> >>

\* string literals of the sources, as character sequences
s_empty == <<>>
s_space == <<" ">>
s_mid == <<"m","i","d">>
s_intermediate == <<"i","n","t","e","r","m","e","d","i","a","t","e">>
s_remote == <<"r","e","m","o","t","e">>
s_Unknown == <<"U","n","k","n","o","w","n">>
s_Remote == <<"R","e","m","o","t","e">>
s_OnSite == <<"O","n","-","s","i","t","e">>
s_undefined == <<"u","n","d","e","f","i","n","e","d">>
s_RemoteOK == <<"R","e","m","o","t","e","O","K">>
s_Remotive == <<"R","e","m","o","t","i","v","e">>
s_Arbeitnow == <<"A","r","b","e","i","t","n","o","w">>
s_Jobicy == <<"J","o","b","i","c","y">>
s_remoteok_ == <<"r","e","m","o","t","e","o","k","-">>
s_remotive_ == <<"r","e","m","o","t","i","v","e","-">>
s_arbeitnow_ == <<"a","r","b","e","i","t","n","o","w","-">>
s_jobicy_ == <<"j","o","b","i","c","y","-">>
s_remoteok == <<"r","e","m","o","t","e","o","k">>
s_remotive == <<"r","e","m","o","t","i","v","e">>
s_arbeitnow == <<"a","r","b","e","i","t","n","o","w">>
s_jobicy == <<"j","o","b","i","c","y">>
s_remoteok_url == <<"h","t","t","p","s",":","/","/","r","e","m","o","t","e","o","k",".","c","o","m","/","l","/">>
s_false == <<"f","a","l","s","e">>
s_true == <<"t","r","u","e">>
s_False == <<"F","a","l","s","e">>
s_zero == <<"0">>
s_general == <<"g","e","n","e","r","a","l">>
s_cat_data == <<"d","a","t","a">>
s_cat_software == <<"s","o","f","t","w","a","r","e","-","d","e","v">>
s_cat_others == <<"a","l","l","-","o","t","h","e","r","s">>
s_dollar == <<"$">>
s_dash == <<"-">>

(************************* sample texts ************************************)
t_SeniorBIManager == <<"S","e","n","i","o","r"," ","B","I"," ","M","a","n","a","g","e","r">>
t_JuniorSQLAnalyst == <<"J","u","n","i","o","r"," ","S","Q","L"," ","A","n","a","l","y","s","t">>
t_TruckDriver == <<"T","r","u","c","k"," ","D","r","i","v","e","r">>
t_DataAnalyst == <<"D","a","t","a"," ","A","n","a","l","y","s","t">>
t_MidDataEngineer == <<"M","i","d","-","l","e","v","e","l"," ","D","a","t","a"," ","E","n","g","i","n","e","e","r">>
c_Acme == <<"A","c","m","e">>
c_Initech == <<"I","n","i","t","e","c","h">>
c_Tableau == <<"T","a","b","l","e","a","u"," ","S","o","f","t","w","a","r","e">>
l_Remote == <<"R","e","m","o","t","e">>
l_AustinTX == <<"A","u","s","t","i","n",","," ","T","X">>
l_Berlin == <<"B","e","r","l","i","n">>
g_Tableau == <<"T","a","b","l","e","a","u">>
g_sql == <<"s","q","l">>
g_logistics == <<"l","o","g","i","s","t","i","c","s">>
d_jan == <<"2","0","2","4","-","0","1","-","0","1">>
d_feb == <<"2","0","2","4","-","0","2","-","0","1">>
d_mar == <<"2","0","2","4","-","0","3","-","0","1">>
d_soon == <<"s","o","o","n">>
u_1 == <<"u","1">>
u_2 == <<"u","2">>
u_3 == <<"u","3">>
q_Tableau == <<"T","a","b","l","e","a","u">>
q_austin == <<"A","u","s","t","i","n">>
q_analyst == <<"a","n","a","l","y","s","t">>
r_01 == <<"0",".","1">>
r_07 == <<"0",".","7">>
t_JuniorAnalystSr == <<"J","u","n","i","o","r"," ","A","n","a","l","y","s","t"," ","S","r">>
y_full_time == <<"f","u","l","l","_","t","i","m","e">>
y_internship == <<"i","n","t","e","r","n","s","h","i","p">>

(************************* JavaScript values *******************************)
Undef == [t |-> "undefined"]
Null == [t |-> "null"]
Str(cs) == [t |-> "string", v |-> cs]
Num(n) == [t |-> "number", v |-> n]
Bool(b) == [t |-> "boolean", v |-> b]
Arr(xs) == [t |-> "array", v |-> xs]

\* ToBoolean
Truthy(x) ==
  CASE x.t = "undefined" -> FALSE
    [] x.t = "null" -> FALSE
    [] x.t = "string" -> Len(x.v) > 0
    [] x.t = "number" -> x.v # 0
    [] x.t = "boolean" -> x.v
    [] OTHER -> TRUE

\* a || b
OrElse(a, b) == IF Truthy(a) THEN a ELSE b

Digit(n) == <<"0","1","2","3","4","5","6","7","8","9">>[n + 1]

RECURSIVE NatToString(_)
NatToString(n) == IF n < 10 THEN <<Digit(n)>> ELSE NatToString(n \div 10) \o <<Digit(n % 10)>>

\* ToString of a value, as a template literal `${x}` and join take it; an
\* array gives its elements joined by commas
RECURSIVE JsToString(_)
RECURSIVE joinComma(_)
joinComma(xs) ==
  IF Len(xs) = 0 THEN <<>>
  ELSE IF Len(xs) = 1 THEN JsToString(xs[1])
  ELSE JsToString(xs[1]) \o <<",">> \o joinComma(Tail(xs))

JsToString(x) ==
  CASE x.t = "string" -> x.v
    [] x.t = "number" -> NatToString(x.v)
    [] x.t = "undefined" -> s_undefined
    [] x.t = "null" -> <<"n","u","l","l">>
    [] x.t = "boolean" -> IF x.v THEN s_true ELSE s_false
    [] x.t = "array" -> joinComma(x.v)
    [] OTHER -> <<"[","o","b","j","e","c","t"," ","O","b","j","e","c","t","]">>

UpperCase == <<"A","B","C","D","E","F","G","H","I","J","K","L","M","N","O","P","Q","R","S","T","U","V","W","X","Y","Z">>
LowerCase == <<"a","b","c","d","e","f","g","h","i","j","k","l","m","n","o","p","q","r","s","t","u","v","w","x","y","z">>

LowerChar(c) ==
  IF \E i \in 1..26 : UpperCase[i] = c
    THEN LowerCase[CHOOSE i \in 1..26 : UpperCase[i] = c]
    ELSE c

\* String.prototype.toLowerCase
toLowerCase(s) == [i \in 1..Len(s) |-> LowerChar(s[i])]

\* String.prototype.includes
includes(s, sub) ==
  \E i \in 0..(Len(s) - Len(sub)) : SubSeq(s, i + 1, i + Len(sub)) = sub

\* String.prototype.trim (spaces only)
RECURSIVE trimStart(_)
trimStart(s) == IF Len(s) > 0 /\ Head(s) = " " THEN trimStart(Tail(s)) ELSE s

RECURSIVE trimEnd(_)
trimEnd(s) == IF Len(s) > 0 /\ s[Len(s)] = " " THEN trimEnd(SubSeq(s, 1, Len(s) - 1)) ELSE s

trim(s) == trimEnd(trimStart(s))

\* Array.prototype.join(' ') of an array of strings
RECURSIVE joinSpace(_)
joinSpace(xs) ==
  IF Len(xs) = 0 THEN <<>>
  ELSE IF Len(xs) = 1 THEN xs[1]
  ELSE xs[1] \o <<" ">> \o joinSpace(Tail(xs))

\* KEYWORDS.some(kw => text.includes(kw))
someIncludes(keywords, text) == \E i \in 1..Len(keywords) : includes(text, keywords[i])

Range(f) == {f[i] : i \in DOMAIN f}

(************************* upstream payloads *******************************)
\* The three variants of the route: src/app/api/jobs/route.ts ("query", filters
\* on the server), src/unnamed/part_002 ("settled", Promise.allSettled and
\* guarded adapters) and src/unnamed/part_003 ("full", several Remotive
\* categories, no filtering).
Routes == {"query", "settled", "full"}

Adapters == <<"remoteok", "remotive", "arbeitnow", "jobicy">>
AdapterKeys == Range(Adapters)

\* An upstream record.  The field names are generic; each adapter reads its
\* own upstream names:
\*   id       RemoteOK id, Remotive id, Arbeitnow slug, Jobicy id
\*   title    position / title / title / jobTitle
\*   company  company / company_name / company_name / companyName
\*   location location / candidate_required_location / location / jobGeo
\*   type     - / job_type / - / jobType          remote: Arbeitnow remote
\*   salary   Remotive salary; salary_min, salary_max: RemoteOK salary_min/max,
\*            Jobicy annualSalaryMin/Max
\*   posted   date / publication_date / created_at / pubDate
\*   tags     tags / tags / tags / jobIndustry
EmptyRecord ==
  [t |-> "object", id |-> Undef, title |-> Undef, company |-> Undef,
   location |-> Undef, type |-> Undef, remote |-> Undef, salary |-> Undef,
   salary_min |-> Undef, salary_max |-> Undef, url |-> Undef,
   posted |-> Undef, tags |-> Undef]

\* a response body that res.json() cannot parse
Unparsable == [t |-> "unparsable"]
\* a parsed object whose expected array field (jobs / data) holds x
Envelope(x) == [t |-> "object", list |-> x]
\* fetch() rejected
NetError == [net |-> "error", ok |-> FALSE, body |-> Unparsable]
Response(ok, body) == [net |-> "ok", ok |-> ok, body |-> body]

\* data.jobs / data.data of a parsed non-null body
ListOf(data) == IF data.t = "object" THEN data.list ELSE Undef

\* Array.prototype.slice(from, to)
slice(xs, from, to) ==
  SubSeq(xs, from + 1, IF to < Len(xs) THEN to ELSE Len(xs))

\* the map callback dereferences a record that is null
mapThrows(items) == \E i \in 1..Len(items) : items[i].t = "null"

\* job.salary_min && job.salary_max ? `$${min}-${max}` : undefined
salaryRange(lo, hi) ==
  IF Truthy(lo) /\ Truthy(hi)
    THEN Str(s_dollar \o JsToString(lo) \o s_dash \o JsToString(hi))
    ELSE Undef

\* Array.isArray(job.tags) ? job.tags : []
tagsIfArray(x) == IF x.t = "array" THEN x ELSE Arr(<<>>)

(************************* RemoteOK ****************************************)
RemoteOKSliceEndQuery == 100
RemoteOKSliceEnd == 150

RemoteOKItems(route, res) ==
  slice(res.body.v, 1,
        IF route = "query" THEN RemoteOKSliceEndQuery ELSE RemoteOKSliceEnd)

\* the paths of fetchRemoteOK that return []: the catch block and, in the
\* settled variant, the guards
fetchRemoteOKFails(route, res) ==
  \/ res.net = "error"
  \/ route = "settled" /\ ~res.ok
  \/ res.body.t = "unparsable"
  \/ res.body.t # "array"
  \/ mapThrows(RemoteOKItems(route, res))

RemoteOKJob(route, job, rnd) ==
  [id |-> Str(s_remoteok_ \o JsToString(
              IF route = "settled" THEN OrElse(job.id, Str(rnd)) ELSE job.id)),
   title |-> OrElse(job.title, Str(s_Unknown)),
   company |-> OrElse(job.company, Str(s_Unknown)),
   location |-> OrElse(job.location, Str(s_Remote)),
   type |-> Undef,
   salary |-> salaryRange(job.salary_min, job.salary_max),
   url |-> OrElse(job.url, Str(s_remoteok_url \o JsToString(job.id))),
   source |-> Str(s_RemoteOK),
   posted |-> job.posted,
   tags |-> IF route = "settled" THEN tagsIfArray(job.tags)
            ELSE OrElse(job.tags, Arr(<<>>)),
   category |-> IF route = "full" THEN Str(s_general) ELSE Undef]

fetchRemoteOK(route, res, rnd) ==
  IF fetchRemoteOKFails(route, res) THEN <<>>
  ELSE LET items == RemoteOKItems(route, res)
       IN  [i \in 1..Len(items) |-> RemoteOKJob(route, items[i], rnd[i])]

(************************* Remotive ****************************************)
RemotiveJob(route, job, rnd, cat) ==
  [id |-> Str(s_remotive_ \o JsToString(
              IF route = "settled" THEN OrElse(job.id, Str(rnd)) ELSE job.id)),
   title |-> IF route = "settled" THEN OrElse(job.title, Str(s_Unknown)) ELSE job.title,
   company |-> IF route = "settled" THEN OrElse(job.company, Str(s_Unknown)) ELSE job.company,
   location |-> OrElse(job.location, Str(s_Remote)),
   type |-> job.type,
   salary |-> OrElse(job.salary, Undef),
   url |-> job.url,
   source |-> Str(s_Remotive),
   posted |-> job.posted,
   tags |-> IF route = "settled" THEN tagsIfArray(job.tags)
            ELSE OrElse(job.tags, Arr(<<>>)),
   category |-> IF route = "full" THEN Str(cat) ELSE Undef]

\* query and settled variants: one request
fetchRemotiveFails(route, res) ==
  \/ res.net = "error"
  \/ route = "settled" /\ ~res.ok
  \/ res.body.t = "unparsable"
  \/ res.body.t = "null"
  \/ ListOf(res.body).t # "array"
  \/ mapThrows(ListOf(res.body).v)

fetchRemotiveOne(route, res, rnd) ==
  IF fetchRemotiveFails(route, res) THEN <<>>
  ELSE LET items == ListOf(res.body).v
       IN  [i \in 1..Len(items) |-> RemotiveJob(route, items[i], rnd[i], s_empty)]

\* full variant: categories, one sub-request each
RemotiveCategories == <<s_cat_data, s_cat_software, s_cat_others>>

\* fetch(...).then(r => r.json()).catch(() => ({ jobs: [] }))
categoryData(res) ==
  IF res.net = "error" \/ res.body.t = "unparsable"
    THEN Envelope(Arr(<<>>))
    ELSE res.body

\* results.forEach body throws: data is null, or data.jobs is truthy and has
\* no forEach, or a record is null
categoryThrows(data) ==
  \/ data.t = "null"
  \/ Truthy(ListOf(data)) /\ ListOf(data).t # "array"
  \/ ListOf(data).t = "array" /\ mapThrows(ListOf(data).v)

categoryJobs(data, cat) ==
  IF Truthy(ListOf(data))
    THEN LET items == ListOf(data).v
         IN  [i \in 1..Len(items) |-> RemotiveJob("full", items[i], s_empty, cat)]
    ELSE <<>>

fetchRemotiveAllFails(ress) ==
  \E c \in 1..Len(RemotiveCategories) : categoryThrows(categoryData(ress[c]))

RECURSIVE concatCategories(_, _)
concatCategories(ress, c) ==
  IF c > Len(RemotiveCategories) THEN <<>>
  ELSE categoryJobs(categoryData(ress[c]), RemotiveCategories[c])
       \o concatCategories(ress, c + 1)

fetchRemotiveAll(ress) ==
  IF fetchRemotiveAllFails(ress) THEN <<>> ELSE concatCategories(ress, 1)

(************************* Arbeitnow ***************************************)
ArbeitnowSliceEnd == 100

ArbeitnowItems(res) == slice(ListOf(res.body).v, 0, ArbeitnowSliceEnd)

fetchArbeitnowFails(route, res) ==
  \/ res.net = "error"
  \/ route = "settled" /\ ~res.ok
  \/ res.body.t = "unparsable"
  \/ res.body.t = "null"
  \/ ListOf(res.body).t # "array"
  \/ mapThrows(ArbeitnowItems(res))

ArbeitnowJob(route, job, rnd) ==
  [id |-> Str(s_arbeitnow_ \o JsToString(
              IF route = "settled" THEN OrElse(job.id, Str(rnd)) ELSE job.id)),
   title |-> IF route = "settled" THEN OrElse(job.title, Str(s_Unknown)) ELSE job.title,
   company |-> IF route = "settled" THEN OrElse(job.company, Str(s_Unknown)) ELSE job.company,
   location |-> OrElse(job.location, Str(s_Remote)),
   type |-> IF Truthy(job.remote) THEN Str(s_Remote) ELSE Str(s_OnSite),
   salary |-> Undef,
   url |-> job.url,
   source |-> Str(s_Arbeitnow),
   posted |-> job.posted,
   tags |-> IF route = "settled" THEN tagsIfArray(job.tags)
            ELSE OrElse(job.tags, Arr(<<>>)),
   category |-> IF route = "full" THEN Str(s_general) ELSE Undef]

fetchArbeitnow(route, res, rnd) ==
  IF fetchArbeitnowFails(route, res) THEN <<>>
  ELSE LET items == ArbeitnowItems(res)
       IN  [i \in 1..Len(items) |-> ArbeitnowJob(route, items[i], rnd[i])]

(************************* Jobicy ******************************************)
\* query and full: `if (!data.jobs) return []`, then data.jobs.map;
\* settled: the guards
fetchJobicyFails(route, res) ==
  \/ res.net = "error"
  \/ route = "settled" /\ ~res.ok
  \/ res.body.t = "unparsable"
  \/ res.body.t = "null"
  \/ ~Truthy(ListOf(res.body))
  \/ ListOf(res.body).t # "array"
  \/ mapThrows(ListOf(res.body).v)

JobicyJob(route, job, rnd) ==
  [id |-> Str(s_jobicy_ \o JsToString(
              IF route = "settled" THEN OrElse(job.id, Str(rnd)) ELSE job.id)),
   title |-> IF route = "settled" THEN OrElse(job.title, Str(s_Unknown)) ELSE job.title,
   company |-> IF route = "settled" THEN OrElse(job.company, Str(s_Unknown)) ELSE job.company,
   location |-> OrElse(job.location, Str(s_Remote)),
   type |-> job.type,
   salary |-> salaryRange(job.salary_min, job.salary_max),
   url |-> job.url,
   source |-> Str(s_Jobicy),
   posted |-> job.posted,
   tags |-> IF route = "settled"
              THEN (IF job.tags.t = "string" THEN Arr(<<job.tags>>) ELSE Arr(<<>>))
              ELSE (IF Truthy(job.tags) THEN Arr(<<job.tags>>) ELSE Arr(<<>>)),
   category |-> IF route = "full"
                  THEN (IF job.tags.t = "string" THEN Str(toLowerCase(job.tags.v))
                        ELSE Str(s_general))
                  ELSE Undef]

fetchJobicy(route, res, rnd) ==
  IF fetchJobicyFails(route, res) THEN <<>>
  ELSE LET items == ListOf(res.body).v
       IN  [i \in 1..Len(items) |-> JobicyJob(route, items[i], rnd[i])]

(************************* classifiers of the query route ******************)
IsNullish(x) == x.t = "undefined" \/ x.t = "null"

\* job.tags?.map(t => t.toLowerCase()) raises a TypeError
tagsLowerThrows(tags) ==
  /\ ~IsNullish(tags)
  /\ \/ tags.t # "array"
     \/ \E i \in 1..Len(tags.v) : tags.v[i].t # "string"

\* job.tags?.map(t => t.toLowerCase()).join(' ') || ''
tagsLowerJoined(tags) ==
  IF IsNullish(tags) THEN <<>>
  ELSE joinSpace([i \in 1..Len(tags.v) |-> toLowerCase(tags.v[i].v)])

isDataRoleThrows(job) == job.title.t # "string" \/ tagsLowerThrows(job.tags)

isDataRole(job) ==
  LET combined == toLowerCase(job.title.v) \o <<" ">> \o tagsLowerJoined(job.tags)
  IN  someIncludes(DATA_KEYWORDS, combined)

isEntryLevelThrows(job) ==
  job.title.t # "string" \/ (~IsNullish(job.type) /\ job.type.t # "string")

\* a faulty variant: senior roles are not excluded
isEntryLevel_keepsSenior(job) ==
  LET typeLower == IF IsNullish(job.type) THEN <<>> ELSE toLowerCase(job.type.v)
      combined == toLowerCase(job.title.v) \o <<" ">> \o typeLower
      isExplicitlyEntry == someIncludes(ENTRY_LEVEL_KEYWORDS, combined)
      hasNoLevelIndicator == /\ ~someIncludes(SENIOR_KEYWORDS, combined)
                             /\ ~includes(combined, s_mid)
                             /\ ~includes(combined, s_intermediate)
  IN  isExplicitlyEntry \/ hasNoLevelIndicator

isEntryLevel(job) ==
  LET typeLower == IF IsNullish(job.type) THEN <<>> ELSE toLowerCase(job.type.v)
      combined == toLowerCase(job.title.v) \o <<" ">> \o typeLower
      isExplicitlyEntry == someIncludes(ENTRY_LEVEL_KEYWORDS, combined)
      hasNoLevelIndicator == /\ ~someIncludes(SENIOR_KEYWORDS, combined)
                             /\ ~includes(combined, s_mid)
                             /\ ~includes(combined, s_intermediate)
  IN  IF someIncludes(SENIOR_KEYWORDS, combined) THEN FALSE
      ELSE isExplicitlyEntry \/ hasNoLevelIndicator

(************************* filter stages of the query route ****************)
\* job.tags?.some(tag => tag.toLowerCase().includes(query)): true at the
\* first matching tag; a TypeError at a tag that is no string before it
RECURSIVE tagsSome(_, _, _)
tagsSome(tags, query, i) ==
  IF i > Len(tags) THEN "false"
  ELSE IF tags[i].t # "string" THEN "throws"
  ELSE IF includes(toLowerCase(tags[i].v), query) THEN "true"
  ELSE tagsSome(tags, query, i + 1)

\* a faulty variant: the tags are not searched
queryMatch_withoutTags(job, query) ==
  IF job.title.t # "string" THEN "throws"
  ELSE IF includes(toLowerCase(job.title.v), query) THEN "true"
  ELSE IF job.company.t # "string" THEN "throws"
  ELSE IF includes(toLowerCase(job.company.v), query) THEN "true"
  ELSE "false"

\* title.includes(q) || company.includes(q) || tags?.some(...), evaluated left
\* to right: "true", "false" or "throws"
queryMatch(job, query) ==
  IF job.title.t # "string" THEN "throws"
  ELSE IF includes(toLowerCase(job.title.v), query) THEN "true"
  ELSE IF job.company.t # "string" THEN "throws"
  ELSE IF includes(toLowerCase(job.company.v), query) THEN "true"
  ELSE IF IsNullish(job.tags) THEN "false"
  ELSE IF job.tags.t # "array" THEN "throws"
  ELSE tagsSome(job.tags.v, query, 1)

locationMatch(job, location) ==
  IF job.location.t # "string" THEN "throws"
  ELSE IF includes(toLowerCase(job.location.v), location) THEN "true"
  ELSE "false"

sourceMatch(job, source) == IF job.source = Str(source) THEN "true" ELSE "false"

\* the running value of a chain of filter calls: the jobs kept so far, or the
\* exception that ended it
Kept(jobs) == [threw |-> FALSE, jobs |-> jobs]
Threw == [threw |-> TRUE, jobs |-> <<>>]

dataStage(job) ==
  IF isDataRoleThrows(job) THEN "throws" ELSE IF isDataRole(job) THEN "true" ELSE "false"

entryStage(job) ==
  IF isEntryLevelThrows(job) THEN "throws" ELSE IF isEntryLevel(job) THEN "true" ELSE "false"

(************************* filter stages of the client pages ***************)
\* `${job.title} ${job.tags?.join(' ') || ''}`.toLowerCase()
joinedText(x) == IF IsNullish(x) THEN <<>> ELSE JsToString(x)

clientDataMatch(job) ==
  IF ~IsNullish(job.tags) /\ job.tags.t # "array" THEN "throws"
  ELSE LET tags == IF IsNullish(job.tags) THEN <<>>
                   ELSE joinSpace([i \in 1..Len(job.tags.v) |-> joinedText(job.tags.v[i])])
           text == toLowerCase(JsToString(job.title) \o <<" ">> \o tags)
       IN  IF someIncludes(CLIENT_DATA_KEYWORDS, text) THEN "true" ELSE "false"

clientEntryMatch(job) ==
  IF job.title.t # "string" THEN "throws"
  ELSE IF someIncludes(CLIENT_SENIOR_KEYWORDS, toLowerCase(job.title.v)) THEN "false"
  ELSE "true"

usMatch(job) ==
  IF job.location.t # "string" THEN "throws"
  ELSE LET loc == toLowerCase(job.location.v)
       IN  IF someIncludes(US_KEYWORDS, loc) \/ loc = s_remote THEN "true" ELSE "false"

(************************* the filter pipelines ****************************)
\* "server": GET of the query route; "page": the client page that filters by
\* data role, entry level, query, location and source; "pageUS": the client
\* page that filters by US location, data role, entry level, query and source
Pipelines == {"server", "page", "pageUS"}

\* the stages of a pipeline in the order of its code
Stages(pl) ==
  CASE pl = "server" -> <<"data", "entry", "query", "location", "source">>
    [] pl = "page" -> <<"data", "entry", "query", "location", "source">>
    [] pl = "pageUS" -> <<"us", "data", "entry", "query", "source">>

\* the condition of the `if` around a stage
StageActive(pl, st, f) ==
  CASE st = "data" -> (pl = "server" \/ f.dataOnly)
    [] st = "entry" -> f.entryOnly
    [] st = "us" -> f.usOnly
    [] st = "query" -> IF pl = "server" THEN Len(f.query) > 0 ELSE Len(trim(f.query)) > 0
    [] st = "location" -> IF pl = "server" THEN Len(f.location) > 0 ELSE Len(trim(f.location)) > 0
    [] st = "source" -> Len(f.source) > 0

\* the callback of a stage's filter call: "true", "false" or "throws"
StageMatch(pl, st, job, f) ==
  CASE st = "data" -> IF pl = "server" THEN dataStage(job) ELSE clientDataMatch(job)
    [] st = "entry" -> IF pl = "server" THEN entryStage(job) ELSE clientEntryMatch(job)
    [] st = "us" -> usMatch(job)
    [] st = "query" -> queryMatch(job, IF pl = "server" THEN f.query ELSE toLowerCase(f.query))
    [] st = "location" -> locationMatch(job, IF pl = "server" THEN f.location ELSE toLowerCase(f.location))
    [] st = "source" -> sourceMatch(job, f.source)

\* a faulty variant: a stage keeps the first matching job only (find, not filter)
filterStage_firstMatch(pl, st, cur, f) ==
  IF cur.threw \/ ~StageActive(pl, st, f) THEN cur
  ELSE IF \E i \in 1..Len(cur.jobs) : StageMatch(pl, st, cur.jobs[i], f) = "throws" THEN Threw
  ELSE LET kept == SelectSeq(cur.jobs, LAMBDA j : StageMatch(pl, st, j, f) = "true")
       IN  Kept(IF kept = <<>> THEN kept ELSE <<kept[1]>>)

\* if (active) jobs = jobs.filter(callback)
filterStage(pl, st, cur, f) ==
  IF cur.threw \/ ~StageActive(pl, st, f) THEN cur
  ELSE IF \E i \in 1..Len(cur.jobs) : StageMatch(pl, st, cur.jobs[i], f) = "throws" THEN Threw
  ELSE Kept(SelectSeq(cur.jobs, LAMBDA j : StageMatch(pl, st, j, f) = "true"))

\* a faulty variant: the last stage is never applied
RECURSIVE applyStages_skipsLast(_, _, _, _)
applyStages_skipsLast(pl, order, cur, f) ==
  IF Len(order) <= 1 THEN cur
  ELSE applyStages_skipsLast(pl, Tail(order), filterStage(pl, Head(order), cur, f), f)

\* the stages of `order`, one after the other
RECURSIVE applyStages(_, _, _, _)
applyStages(pl, order, cur, f) ==
  IF Len(order) = 0 THEN cur
  ELSE applyStages(pl, Tail(order), filterStage(pl, Head(order), cur, f), f)

\* filteredJobs of the client pages
filteredJobsOf(pl, jobs, f) == applyStages(pl, Stages(pl), Kept(jobs), f)

\* the parameters of the query string: each absent (null) or a string
NoParams == [q |-> Null, location |-> Null, source |-> Null, entry |-> Null]

\* searchParams.get(name)?.toLowerCase() || ''
paramLower(p) == IF p.t = "string" THEN toLowerCase(p.v) ELSE <<>>
\* searchParams.get(name) || ''
paramOrEmpty(p) == IF p.t = "string" THEN p.v ELSE <<>>
\* a faulty variant: the entry-level stage is opt-in
entryOnlyOf_optIn(params) == params.entry = Str(s_true)

\* searchParams.get('entry') !== 'false'
entryOnlyOf(params) == params.entry # Str(s_false)

\* the filter settings GET reads from the query string
serverSettings(params) ==
  [query |-> paramLower(params.q), location |-> paramLower(params.location),
   source |-> paramOrEmpty(params.source), dataOnly |-> TRUE,
   entryOnly |-> entryOnlyOf(params), usOnly |-> FALSE]

\* the filter calls of GET in the query route
serverFilter(jobs, params) ==
  applyStages("server", Stages("server"), Kept(jobs), serverSettings(params))

(************************* sort by recency *********************************)
\* new Date(posted).getTime() of the sample dates; NaN for any other string
NaN == [nan |-> TRUE, ms |-> 0]
Ms(n) == [nan |-> FALSE, ms |-> n]
getTime(posted) ==
  CASE posted = Str(d_jan) -> Ms(1)
    [] posted = Str(d_feb) -> Ms(2)
    [] posted = Str(d_mar) -> Ms(3)
    [] posted.t = "number" -> Ms(posted.v)
    [] OTHER -> NaN

\* a faulty variant: the comparator orders the oldest first
compare_oldestFirst(a, b) ==
  IF ~Truthy(a.posted) \/ ~Truthy(b.posted) THEN 0
  ELSE IF getTime(a.posted).nan \/ getTime(b.posted).nan THEN 0
  ELSE getTime(a.posted).ms - getTime(b.posted).ms

\* the comparator; V8 takes a NaN result as 0
compare(a, b) ==
  IF ~Truthy(a.posted) \/ ~Truthy(b.posted) THEN 0
  ELSE IF getTime(a.posted).nan \/ getTime(b.posted).nan THEN 0
  ELSE getTime(b.posted).ms - getTime(a.posted).ms

\* Array.prototype.sort as V8 runs it on an array shorter than 64: the
\* initial run is found (and reversed when strictly descending), the other
\* elements are placed by binary insertion
RECURSIVE runLength(_, _, _)
runLength(xs, idx, descending) ==
  IF idx > Len(xs) THEN idx - 1
  ELSE LET order == compare(xs[idx], xs[idx - 1])
       IN  IF (descending /\ order >= 0) \/ (~descending /\ order < 0)
             THEN idx - 1
             ELSE runLength(xs, idx + 1, descending)

reverse(xs) == [i \in 1..Len(xs) |-> xs[Len(xs) + 1 - i]]

RECURSIVE insertionPoint(_, _, _, _)
insertionPoint(xs, pivot, left, right) ==
  IF left >= right THEN left
  ELSE LET mid == left + ((right - left) \div 2)
       IN  IF compare(pivot, xs[mid + 1]) < 0
             THEN insertionPoint(xs, pivot, left, mid)
             ELSE insertionPoint(xs, pivot, mid + 1, right)

RECURSIVE binaryInsertionSort(_, _)
binaryInsertionSort(xs, start) ==
  IF start >= Len(xs) THEN xs
  ELSE LET pivot == xs[start + 1]
           left == insertionPoint(xs, pivot, 0, start)
           placed == SubSeq(xs, 1, left) \o <<pivot>> \o SubSeq(xs, left + 1, start)
                     \o SubSeq(xs, start + 2, Len(xs))
       IN  binaryInsertionSort(placed, start + 1)

\* a faulty variant: once the initial descending run is reversed, the
\* elements after it are left out
sortByRecency_losesTail(xs) ==
  IF Len(xs) < 2 THEN xs
  ELSE LET descending == compare(xs[2], xs[1]) < 0
           run == runLength(xs, 3, descending)
           made == IF descending THEN reverse(SubSeq(xs, 1, run)) ELSE xs
       IN  binaryInsertionSort(made, run)

sortByRecency(xs) ==
  IF Len(xs) < 2 THEN xs
  ELSE LET descending == compare(xs[2], xs[1]) < 0
           run == runLength(xs, 3, descending)
           made == IF descending
                     THEN reverse(SubSeq(xs, 1, run)) \o SubSeq(xs, run + 1, Len(xs))
                     ELSE xs
       IN  binaryInsertionSort(made, run)

(************************* inputs ******************************************)
RawA ==
  [EmptyRecord EXCEPT !.id = Num(1), !.title = Str(t_SeniorBIManager),
     !.company = Str(c_Acme), !.location = Str(l_Remote), !.url = Str(u_1),
     !.posted = Str(d_jan), !.tags = Arr(<<Str(g_sql)>>)]
RawB ==
  [EmptyRecord EXCEPT !.id = Num(2), !.title = Str(t_JuniorSQLAnalyst),
     !.company = Str(c_Initech), !.location = Str(l_AustinTX), !.url = Str(u_2),
     !.posted = Str(d_feb), !.tags = Arr(<<Str(g_Tableau)>>)]
\* a record that omits every field
RawC == EmptyRecord
\* a record whose title and tags have the wrong type
RawD ==
  [EmptyRecord EXCEPT !.id = Str(g_sql), !.title = Num(7),
     !.company = Str(c_Acme), !.url = Str(u_3), !.posted = Str(d_soon),
     !.tags = Str(g_sql)]

RawRecords == {RawA, RawB, RawC}
OddRecords == {RawD, Null}

SeqsUpTo(S, n) == UNION {[1..m -> S] : m \in 0..n}

\* the body an adapter expects: RemoteOK a top-level array that starts with a
\* header record, the others an object holding the array
WellFormed(k, items) ==
  IF k = "remoteok" THEN Arr(<<EmptyRecord>> \o items) ELSE Envelope(Arr(items))

\* what one upstream may answer in an aggregation run
Responses(k) ==
  {NetError, Response(TRUE, Unparsable), Response(TRUE, Null)}
  \cup {Response(ok, WellFormed(k, items)) :
          ok \in BOOLEAN, items \in SeqsUpTo(RawRecords, MaxJobs)}

\* Math.random() as interpolated into an id
RandomDraws == {r_01, r_07}
Draws == [1..(MaxJobs + 1) -> RandomDraws]
NoDraws == [i \in 1..(MaxJobs + 1) |-> r_01]

\* the query strings of the requests
EntryValues == {Null, Str(s_false), Str(s_true), Str(s_False), Str(s_zero), Str(s_empty)}
ParamSet ==
  {[NoParams EXCEPT !.entry = e] : e \in EntryValues}
  \cup {[NoParams EXCEPT !.q = Str(q_Tableau), !.entry = e] : e \in {Null, Str(s_false)}}
  \cup {[NoParams EXCEPT !.location = Str(q_austin), !.entry = Str(s_false)],
        [NoParams EXCEPT !.source = Str(s_Remotive), !.entry = Str(s_false)],
        [NoParams EXCEPT !.source = Str(s_remotive), !.entry = Str(s_false)]}

(************************* one aggregation request *************************)
VARIABLES
  route,        \* which variant of the route is deployed
  pc,           \* where the modelled run is
  params,       \* the query string of the request
  task,         \* the four adapter promises
  response,     \* what GET answered
  upstream,     \* adapter runs on their own: the adapter and what its upstream answered
  pipeline,     \* filter runs on their own: which pipeline
  allJobs,      \*   its input jobs
  settings,     \*   its query, location, source and toggles
  filteredJobs, \*   its output
  candidate,    \* classifier runs on their own: the job
  verdict,      \*   what each classifier answered
  availableSources, \* client page: the sources its select offers
  client,       \* fetching pages: the state hooks of the page
  issued        \*   the fetchJobs calls made so far, with how each ended

vars == <<route, pc, params, task, response, upstream, pipeline, allJobs, settings,
          filteredJobs, candidate, verdict, availableSources, client, issued>>
requestVars == <<route, params, task, response>>
filterVars == <<pipeline, allJobs, settings, filteredJobs>>
classifyVars == <<candidate, verdict>>
pageVars == <<availableSources>>
clientVars == <<client, issued>>

Pending == [state |-> "pending", value |-> <<>>, failed |-> FALSE, distinct |-> TRUE]
\* an adapter's promise, resolved: its jobs, whether it took a path that
\* returns [], and whether the ids its upstream gave are pairwise distinct
Fulfilled(jobs, failed, distinct) ==
  [state |-> "fulfilled", value |-> jobs, failed |-> failed, distinct |-> distinct]

NoResponse == [kind |-> "none", jobs |-> <<>>, total |-> 0,
               sources |-> [k \in AdapterKeys |-> 0]]

\* the ids that are present among the records are pairwise distinct
idsDistinct(items) ==
  \A i, j \in 1..Len(items) :
     (i < j /\ items[i].t = "object" /\ items[j].t = "object"
      /\ items[i].id # Undef /\ items[j].id # Undef) => items[i].id # items[j].id

\* the records of a well-formed body, [] of any other
recordsOf(k, res) ==
  IF res.net = "error" THEN <<>>
  ELSE IF k = "remoteok"
    THEN (IF res.body.t = "array" THEN SubSeq(res.body.v, 2, Len(res.body.v)) ELSE <<>>)
  ELSE IF res.body.t = "object" /\ res.body.list.t = "array" THEN res.body.list.v
  ELSE <<>>

NoUpstream == [adapter |-> "none", ress |-> <<>>]
NoSettings == [query |-> <<>>, location |-> <<>>, source |-> <<>>,
               dataOnly |-> FALSE, entryOnly |-> FALSE, usOnly |-> FALSE]

FilterIdle ==
  /\ pipeline = "server"
  /\ allJobs = <<>>
  /\ settings = NoSettings
  /\ filteredJobs = Kept(<<>>)

NoVerdict == [isDataRole |-> "none", isEntryLevel |-> "none",
              pageData |-> "none", pageEntry |-> "none"]

ClassifyIdle ==
  /\ candidate = EmptyRecord
  /\ verdict = NoVerdict

PageIdle == availableSources = <<>>

NoClient == [page |-> "none", jobs |-> Arr(<<>>), sources |-> Null, total |-> Num(0),
             loading |-> TRUE, query |-> s_empty, entryOnly |-> TRUE]

ClientIdle ==
  /\ client = NoClient
  /\ issued = <<>>

Init ==
  /\ route \in Routes
  /\ pc = "idle"
  /\ params = NoParams
  /\ task = [k \in AdapterKeys |-> Pending]
  /\ response = NoResponse
  /\ upstream = NoUpstream
  /\ FilterIdle
  /\ ClassifyIdle
  /\ PageIdle
  /\ ClientIdle

\* GET is entered: the query route reads its parameters, then all four
\* adapters are started
GETStart ==
  /\ pc = "idle"
  /\ params' \in (IF route = "query" THEN ParamSet ELSE {NoParams})
  /\ pc' = "fetching"
  /\ UNCHANGED <<route, task, response, upstream, filterVars, classifyVars, pageVars, clientVars>>

\* what the upstream of adapter k may answer to one run of the adapter: one
\* response, or one per category for the Remotive adapter of the full variant
upstreamChoices(r, k, single, perCategory) ==
  IF r = "full" /\ k = "remotive"
    THEN [1..Len(RemotiveCategories) -> perCategory]
    ELSE {<<res>> : res \in single}

drawChoices(r) == IF r = "settled" THEN Draws ELSE {NoDraws}

RECURSIVE allRecords(_, _, _)
allRecords(k, ress, i) ==
  IF i > Len(ress) THEN <<>> ELSE recordsOf(k, ress[i]) \o allRecords(k, ress, i + 1)

\* the promise of adapter k once its upstream has answered `ress`
settle(r, k, ress, rnd) ==
  LET jobs == CASE k = "remoteok" -> fetchRemoteOK(r, ress[1], rnd)
                [] k = "remotive" -> IF r = "full" THEN fetchRemotiveAll(ress)
                                     ELSE fetchRemotiveOne(r, ress[1], rnd)
                [] k = "arbeitnow" -> fetchArbeitnow(r, ress[1], rnd)
                [] k = "jobicy" -> fetchJobicy(r, ress[1], rnd)
      failed == CASE k = "remoteok" -> fetchRemoteOKFails(r, ress[1])
                  [] k = "remotive" -> IF r = "full" THEN fetchRemotiveAllFails(ress)
                                       ELSE fetchRemotiveFails(r, ress[1])
                  [] k = "arbeitnow" -> fetchArbeitnowFails(r, ress[1])
                  [] k = "jobicy" -> fetchJobicyFails(r, ress[1])
  IN  Fulfilled(jobs, failed, idsDistinct(allRecords(k, ress, 1)))

\* adapter k of the running request settles
RunFetch(k) ==
  /\ pc = "fetching" /\ task[k].state = "pending"
  /\ \E ress \in upstreamChoices(route, k, Responses(k), Responses(k)), rnd \in drawChoices(route) :
       task' = [task EXCEPT ![k] = settle(route, k, ress, rnd)]
  /\ UNCHANGED <<route, pc, params, response, upstream, filterVars, classifyVars, pageVars, clientVars>>

RunFetchRemoteOK == RunFetch("remoteok")
RunFetchRemotive == RunFetch("remotive")
RunFetchArbeitnow == RunFetch("arbeitnow")
RunFetchJobicy == RunFetch("jobicy")

\* a faulty variant: the last adapter's jobs are left out of the spread
concatResults_dropsJobicy(t, i) ==
  t["remoteok"].value \o t["remotive"].value \o t["arbeitnow"].value

\* [...remoteok, ...remotive, ...arbeitnow, ...jobicy]
RECURSIVE concatResults(_, _)
concatResults(t, i) ==
  IF i > Len(Adapters) THEN <<>>
  ELSE (IF t[Adapters[i]].state = "fulfilled" THEN t[Adapters[i]].value ELSE <<>>)
       \o concatResults(t, i + 1)

\* a faulty variant: the counts of the first two sources are exchanged
sourceCounts_misordered(t) ==
  [k \in AdapterKeys |->
     LET from == CASE k = "remoteok" -> "remotive"
                   [] k = "remotive" -> "remoteok"
                   [] OTHER -> k
     IN  IF t[from].state = "fulfilled" THEN Len(t[from].value) ELSE 0]

\* the per-source counts of the envelope
sourceCounts(t) ==
  [k \in AdapterKeys |-> IF t[k].state = "fulfilled" THEN Len(t[k].value) ELSE 0]

Envelope200(jobs, t) ==
  [kind |-> "ok", jobs |-> jobs, total |-> Len(jobs), sources |-> sourceCounts(t)]

\* the settled variant's catch block
Degraded == [kind |-> "degraded", jobs |-> <<>>, total |-> 0,
             sources |-> [k \in AdapterKeys |-> 0]]

\* GET ends with an uncaught exception: no envelope
Raised == [kind |-> "raised", jobs |-> <<>>, total |-> 0,
           sources |-> [k \in AdapterKeys |-> 0]]

\* what GET answers once the four adapter promises are settled
GETResult(r, p, t) ==
  IF r = "query"
    THEN LET filtered == serverFilter(concatResults(t, 1), p)
         IN  IF filtered.threw THEN Raised
             ELSE Envelope200(sortByRecency(filtered.jobs), t)
    ELSE Envelope200(sortByRecency(concatResults(t, 1)), t)

\* a faulty variant: GET resumes as soon as one adapter has succeeded
GETRespond_atFirstSuccess ==
  /\ pc = "fetching"
  /\ \E k \in AdapterKeys : task[k].state = "fulfilled" /\ ~task[k].failed
  /\ response' = GETResult(route, params, task)
  /\ pc' = "responded"
  /\ UNCHANGED <<route, params, task, upstream, filterVars, classifyVars, pageVars, clientVars>>

\* a faulty variant: GET resumes as soon as one adapter has settled
GETRespond_atFirstSettled ==
  /\ pc = "fetching"
  /\ \E k \in AdapterKeys : task[k].state # "pending"
  /\ response' = GETResult(route, params, task)
  /\ pc' = "responded"
  /\ UNCHANGED <<route, params, task, upstream, filterVars, classifyVars, pageVars, clientVars>>

\* Promise.all / Promise.allSettled resumes GET when no adapter is pending
GETRespond ==
  /\ pc = "fetching"
  /\ \A k \in AdapterKeys : task[k].state # "pending"
  /\ response' = GETResult(route, params, task)
  /\ pc' = "responded"
  /\ UNCHANGED <<route, params, task, upstream, filterVars, classifyVars, pageVars, clientVars>>

Next ==
  \/ GETStart
  \/ RunFetchRemoteOK
  \/ RunFetchRemotive
  \/ RunFetchArbeitnow
  \/ RunFetchJobicy
  \/ GETRespond

Spec == Init /\ [][Next]_vars

(************************* one adapter on its own **************************)
\* every shape of body an upstream may send
AllBodies(k) ==
  {Unparsable, Null, Str(g_sql), Arr(<<>>), Envelope(Undef), Envelope(Str(g_sql))}
  \cup {WellFormed(k, items) : items \in SeqsUpTo(RawRecords \cup OddRecords, MaxJobs)}

AllResponses(k) ==
  {NetError} \cup {Response(ok, body) : ok \in BOOLEAN, body \in AllBodies(k)}

InitAdapter ==
  /\ route \in Routes
  /\ pc = "adapter"
  /\ params = NoParams
  /\ task = [k \in AdapterKeys |-> Pending]
  /\ response = NoResponse
  /\ upstream = NoUpstream
  /\ FilterIdle
  /\ ClassifyIdle
  /\ PageIdle
  /\ ClientIdle

\* adapter k runs against one answer of its upstream
CallFetch(k) ==
  /\ pc = "adapter"
  /\ \E ress \in upstreamChoices(route, k, AllResponses(k), AllResponses(k)),
        rnd \in drawChoices(route) :
       /\ upstream' = [adapter |-> k, ress |-> ress]
       /\ task' = [task EXCEPT ![k] = settle(route, k, ress, rnd)]
  /\ pc' = "adapterDone"
  /\ UNCHANGED <<route, params, response, filterVars, classifyVars, pageVars, clientVars>>

CallFetchRemoteOK == CallFetch("remoteok")
CallFetchRemotive == CallFetch("remotive")
CallFetchArbeitnow == CallFetch("arbeitnow")
CallFetchJobicy == CallFetch("jobicy")

NextAdapter ==
  \/ CallFetchRemoteOK
  \/ CallFetchRemotive
  \/ CallFetchArbeitnow
  \/ CallFetchJobicy

SpecAdapter == InitAdapter /\ [][NextAdapter]_vars

(************************* one filter pipeline on its own ******************)
\* jobs as the adapters of the full variant build them; the last has no title
RawE ==
  [EmptyRecord EXCEPT !.id = Str(t_TruckDriver), !.title = Str(t_TruckDriver),
     !.company = Str(c_Tableau), !.location = Str(l_Berlin), !.url = Str(u_3),
     !.posted = Str(d_mar), !.tags = Arr(<<Str(g_logistics)>>)]

JobPool ==
  {RemoteOKJob("full", RawA, r_01), RemotiveJob("full", RawB, r_01, s_cat_data),
   ArbeitnowJob("full", RawE, r_01), JobicyJob("full", RawC, r_01)}

QueryTexts == {s_empty, s_space, q_Tableau}
LocationTexts == {s_empty, q_austin}
SourceTexts == {s_empty, s_Remotive}

\* the state of a client page's inputs and toggles
PageSettings ==
  [query : QueryTexts, location : LocationTexts, source : SourceTexts,
   dataOnly : BOOLEAN, entryOnly : BOOLEAN, usOnly : {FALSE}]
PageUSSettings ==
  [query : QueryTexts, location : {s_empty}, source : SourceTexts,
   dataOnly : BOOLEAN, entryOnly : BOOLEAN, usOnly : BOOLEAN]
\* what GET reads from a query string
ServerSettings ==
  {serverSettings([q |-> q, location |-> l, source |-> s, entry |-> e]) :
     q \in {Null, Str(q_Tableau), Str(s_space)}, l \in {Null, Str(q_austin)},
     s \in {Null, Str(s_Remotive)}, e \in {Null, Str(s_false), Str(s_true)}}

SettingsOf(pl) ==
  CASE pl = "server" -> ServerSettings
    [] pl = "page" -> PageSettings
    [] pl = "pageUS" -> PageUSSettings

InitFilter ==
  /\ route = "query"
  /\ pc = "unfiltered"
  /\ params = NoParams
  /\ task = [k \in AdapterKeys |-> Pending]
  /\ response = NoResponse
  /\ upstream = NoUpstream
  /\ pipeline \in Pipelines
  /\ allJobs \in SeqsUpTo(JobPool, MaxLen)
  /\ settings \in SettingsOf(pipeline)
  /\ filteredJobs = Kept(<<>>)
  /\ ClassifyIdle
  /\ PageIdle
  /\ ClientIdle

RunPipeline(pl) ==
  /\ pc = "unfiltered" /\ pipeline = pl
  /\ filteredJobs' = filteredJobsOf(pl, allJobs, settings)
  /\ pc' = "filtered"
  /\ UNCHANGED <<requestVars, upstream, pipeline, allJobs, settings, classifyVars, pageVars, clientVars>>

ServerFilters == RunPipeline("server")
PageFilters == RunPipeline("page")
PageUSFilters == RunPipeline("pageUS")

NextFilter ==
  \/ ServerFilters
  \/ PageFilters
  \/ PageUSFilters

SpecFilter == InitFilter /\ [][NextFilter]_vars

(************************* one classifier call on its own ******************)
\* jobs as GET hands them to the classifiers: a title (or none) and a type
ClassifierTitles ==
  {Str(t_SeniorBIManager), Str(t_JuniorSQLAnalyst), Str(t_DataAnalyst),
   Str(t_MidDataEngineer), Str(t_TruckDriver), Str(t_JuniorAnalystSr), Undef}
ClassifierTypes == {Undef, Str(y_full_time), Str(y_internship)}
ClassifierJobs ==
  {[RemotiveJob("query", RawB, r_01, s_empty) EXCEPT !.title = ti, !.type = ty] :
     ti \in ClassifierTitles, ty \in ClassifierTypes}

InitClassify ==
  /\ route = "query"
  /\ pc = "classify"
  /\ params = NoParams
  /\ task = [k \in AdapterKeys |-> Pending]
  /\ response = NoResponse
  /\ upstream = NoUpstream
  /\ FilterIdle
  /\ candidate \in ClassifierJobs
  /\ verdict = NoVerdict
  /\ PageIdle
  /\ ClientIdle

\* isDataRole(job) of the query route
CallIsDataRole ==
  /\ pc = "classify" /\ verdict.isDataRole = "none"
  /\ verdict' = [verdict EXCEPT !.isDataRole = dataStage(candidate)]
  /\ UNCHANGED <<requestVars, pc, upstream, filterVars, candidate, pageVars, clientVars>>

\* isEntryLevel(job) of the query route
CallIsEntryLevel ==
  /\ pc = "classify" /\ verdict.isEntryLevel = "none"
  /\ verdict' = [verdict EXCEPT !.isEntryLevel = entryStage(candidate)]
  /\ UNCHANGED <<requestVars, pc, upstream, filterVars, candidate, pageVars, clientVars>>

\* the data roles callback of the client pages
CallPageData ==
  /\ pc = "classify" /\ verdict.pageData = "none"
  /\ verdict' = [verdict EXCEPT !.pageData = clientDataMatch(candidate)]
  /\ UNCHANGED <<requestVars, pc, upstream, filterVars, candidate, pageVars, clientVars>>

\* the entry level callback of the client pages
CallPageEntry ==
  /\ pc = "classify" /\ verdict.pageEntry = "none"
  /\ verdict' = [verdict EXCEPT !.pageEntry = clientEntryMatch(candidate)]
  /\ UNCHANGED <<requestVars, pc, upstream, filterVars, candidate, pageVars, clientVars>>

NextClassify ==
  \/ CallIsDataRole
  \/ CallIsEntryLevel
  \/ CallPageData
  \/ CallPageEntry

SpecClassify == InitClassify /\ [][NextClassify]_vars

(************************* the client page of the US variant ***************)
\* what an upstream answered to the request the page is loaded from
PageUpstreams(k) ==
  {NetError, Response(TRUE, WellFormed(k, <<RawA>>)), Response(TRUE, WellFormed(k, <<RawB>>))}

\* one answer per sub-request: the first category gets res, the others an
\* empty list
answersOf(r, k, res) ==
  IF r = "full" /\ k = "remotive"
    THEN <<res, Response(TRUE, WellFormed(k, <<>>)), Response(TRUE, WellFormed(k, <<>>))>>
    ELSE <<res>>

\* useState: the inputs and toggles of the page as it is mounted
MountedSettings ==
  [query |-> s_empty, location |-> s_empty, source |-> s_empty,
   dataOnly |-> TRUE, entryOnly |-> TRUE, usOnly |-> TRUE]

\* the page is mounted and GET of the unfiltered endpoint has answered
InitPage ==
  /\ route = "full"
  /\ pc = "mounted"
  /\ params = NoParams
  /\ \E res \in [AdapterKeys -> UNION {PageUpstreams(k) : k \in AdapterKeys}] :
       /\ \A k \in AdapterKeys : res[k] \in PageUpstreams(k)
       /\ task = [k \in AdapterKeys |-> settle(route, k, answersOf(route, k, res[k]), NoDraws)]
  /\ response = GETResult(route, params, task)
  /\ upstream = NoUpstream
  /\ pipeline = "pageUS"
  /\ allJobs = <<>>
  /\ settings = MountedSettings
  /\ filteredJobs = Kept(<<>>)
  /\ ClassifyIdle
  /\ PageIdle
  /\ ClientIdle

\* the key of an adapter in the sources object, as text
keyText(k) ==
  CASE k = "remoteok" -> s_remoteok
    [] k = "remotive" -> s_remotive
    [] k = "arbeitnow" -> s_arbeitnow
    [] k = "jobicy" -> s_jobicy

\* Object.keys(data.sources).filter(s => data.sources[s] > 0)
sourcesWithJobs(sources) ==
  LET keys == SelectSeq(Adapters, LAMBDA k : sources[k] > 0)
  IN  [i \in 1..Len(keys) |-> keyText(keys[i])]

\* the page is displayed: no filter callback raised while it rendered
Rendering == pc = "ready" /\ ~filteredJobs.threw

\* fetchJobs of the mount effect, and the render that follows
PageFetchJobs ==
  /\ pc = "mounted"
  /\ allJobs' = response.jobs
  /\ availableSources' = sourcesWithJobs(response.sources)
  /\ filteredJobs' = filteredJobsOf(pipeline, allJobs', settings)
  /\ pc' = "ready"
  /\ UNCHANGED <<requestVars, upstream, pipeline, settings, classifyVars, clientVars>>

\* the user picks an option of the source select
SelectSource ==
  /\ Rendering
  /\ \E s \in {s_empty} \cup Range(availableSources) :
       /\ settings' = [settings EXCEPT !.source = s]
       /\ filteredJobs' = filteredJobsOf(pipeline, allJobs, settings')
  /\ UNCHANGED <<requestVars, pc, upstream, pipeline, allJobs, classifyVars, pageVars, clientVars>>

\* the user flips a checkbox
Toggle(box) ==
  /\ Rendering
  /\ settings' = [settings EXCEPT ![box] = ~settings[box]]
  /\ filteredJobs' = filteredJobsOf(pipeline, allJobs, settings')
  /\ UNCHANGED <<requestVars, pc, upstream, pipeline, allJobs, classifyVars, pageVars, clientVars>>

ToggleUsOnly == Toggle("usOnly")
ToggleDataOnly == Toggle("dataOnly")
ToggleEntryOnly == Toggle("entryOnly")

\* the user types into the search box
TypeQuery ==
  /\ Rendering
  /\ \E q \in {s_empty, q_Tableau} :
       /\ settings' = [settings EXCEPT !.query = q]
       /\ filteredJobs' = filteredJobsOf(pipeline, allJobs, settings')
  /\ UNCHANGED <<requestVars, pc, upstream, pipeline, allJobs, classifyVars, pageVars, clientVars>>

NextPage ==
  \/ PageFetchJobs
  \/ SelectSource
  \/ ToggleUsOnly
  \/ ToggleDataOnly
  \/ ToggleEntryOnly
  \/ TypeQuery

SpecPage == InitPage /\ [][NextPage]_vars

(************************* the pages that fetch ****************************)
\* "search": src/app/page.tsx; "searchEntry": the page of part_000 that sends
\* its filters to the server; "all": the page of part_000 that fetches once
\* and filters in the browser; "us": the page of part_001
ClientPages == {"search", "searchEntry", "all", "us"}
SearchPages == {"search", "searchEntry"}

MaxRequests == 3

\* useState: the hooks of a page as it is mounted; a page without a hook
\* keeps the field as it is here
useStateOf(page) ==
  [page |-> page, jobs |-> Arr(<<>>),
   sources |-> IF page = "us" THEN Arr(<<>>) ELSE Null,
   total |-> Num(0), loading |-> TRUE, query |-> s_empty, entryOnly |-> TRUE]

\* new URLSearchParams() as fetchJobs fills it, read back by the route with
\* searchParams.get; the location and source inputs are left empty
paramsOf(state) ==
  IF state.page \in SearchPages
    THEN [NoParams EXCEPT
            !.q = IF state.query # s_empty THEN Str(state.query) ELSE Null,
            !.entry = IF state.page = "searchEntry" /\ ~state.entryOnly
                        THEN Str(s_false) ELSE Null]
    ELSE NoParams

\* how a request may end
InFlight == [how |-> "pending"]
FetchRejects == [how |-> "neterror"]
JsonRejects == [how |-> "nonjson"]
Json(data) == [how |-> "json", data |-> data]

\* a JSON body that is an object without jobs, total and sources
OtherJson == [t |-> "object", jobs |-> Undef, total |-> Undef, sources |-> Undef]

\* NextResponse.json({ jobs, total, sources }) as the page parses it; a GET
\* that raised is answered with a status 500 page, which is no JSON
answerOf(r, p, t) ==
  LET answer == GETResult(r, p, t)
  IN  IF answer.kind = "raised" THEN JsonRejects
      ELSE Json([t |-> "object", jobs |-> Arr(answer.jobs), total |-> Num(answer.total),
                 sources |-> [t |-> "object", counts |-> answer.sources]])

Outcomes(r, p, t) ==
  {FetchRejects, JsonRejects, Json(Null), Json(OtherJson), answerOf(r, p, t)}

\* a faulty variant: the catch block empties the list
fetchJobsEnd_clearsOnFailure(state, outcome) ==
  LET data == outcome.data
      applied ==
        IF outcome.how # "json" THEN [state EXCEPT !.jobs = Arr(<<>>)]
        ELSE IF data.t = "null" THEN state
        ELSE IF state.page \in SearchPages
          THEN [state EXCEPT !.jobs = data.jobs, !.sources = data.sources]
        ELSE IF state.page = "all"
          THEN [state EXCEPT !.jobs = data.jobs, !.total = data.total]
        ELSE LET two == [state EXCEPT !.jobs = data.jobs, !.total = data.total]
             IN  IF data.sources.t = "object"
                   THEN [two EXCEPT !.sources = Arr(sourcesWithJobs(data.sources.counts))]
                   ELSE two
  IN  [applied EXCEPT !.loading = FALSE]

\* the state updates of fetchJobs once its request has ended: the body of the
\* try up to the first exception, then setLoading(false)
fetchJobsEnd(state, outcome) ==
  LET data == outcome.data
      applied ==
        IF outcome.how # "json" THEN state
        ELSE IF data.t = "null" THEN state
        ELSE IF state.page \in SearchPages
          THEN [state EXCEPT !.jobs = data.jobs, !.sources = data.sources]
        ELSE IF state.page = "all"
          THEN [state EXCEPT !.jobs = data.jobs, !.total = data.total]
        ELSE LET two == [state EXCEPT !.jobs = data.jobs, !.total = data.total]
             IN  IF data.sources.t = "object"
                   THEN [two EXCEPT !.sources = Arr(sourcesWithJobs(data.sources.counts))]
                   ELSE two
  IN  [applied EXCEPT !.loading = FALSE]

\* fetchJobs up to its first await: setLoading(true) and the request is sent
\* with the parameters of the render that made the call
fetchJobsStart(state) ==
  /\ Len(issued) < MaxRequests
  /\ client' = [state EXCEPT !.loading = TRUE]
  /\ issued' = Append(issued, [params |-> paramsOf(state), outcome |-> InFlight])

\* the upstream answers behind the server while the page is open
ClientUpstreams(k) ==
  CASE k = "remoteok" -> {Response(TRUE, WellFormed(k, <<RawA>>))}
    [] k = "remotive" -> PageUpstreams(k)
    [] OTHER -> {NetError}

InitClient ==
  /\ \E page \in ClientPages :
       /\ client = useStateOf(page)
       /\ route = IF page \in SearchPages THEN "query" ELSE "full"
  /\ pc = "clientNew"
  /\ params = NoParams
  /\ \E res \in [AdapterKeys -> UNION {ClientUpstreams(k) : k \in AdapterKeys}] :
       /\ \A k \in AdapterKeys : res[k] \in ClientUpstreams(k)
       /\ task = [k \in AdapterKeys |-> settle(route, k, answersOf(route, k, res[k]), NoDraws)]
  /\ response = NoResponse
  /\ upstream = NoUpstream
  /\ issued = <<>>
  /\ FilterIdle
  /\ ClassifyIdle
  /\ PageIdle

\* useEffect after the first render
ClientMount ==
  /\ pc = "clientNew"
  /\ fetchJobsStart(client)
  /\ pc' = "clientLive"
  /\ UNCHANGED <<requestVars, upstream, filterVars, classifyVars, pageVars>>

\* the user edits the search input
ClientTypeQuery ==
  /\ pc = "clientLive"
  /\ client.page \in SearchPages
  /\ \E text \in {s_empty, q_austin} \ {client.query} :
       client' = [client EXCEPT !.query = text]
  /\ UNCHANGED <<requestVars, pc, upstream, filterVars, classifyVars, pageVars, issued>>

\* the user submits the search form
ClientHandleSearch ==
  /\ pc = "clientLive"
  /\ client.page \in SearchPages
  /\ fetchJobsStart(client)
  /\ UNCHANGED <<requestVars, pc, upstream, filterVars, classifyVars, pageVars>>

\* the user flips the entry-level checkbox, and the effect on [entryOnly]
\* runs after the render
ClientToggleEntry ==
  /\ pc = "clientLive"
  /\ client.page = "searchEntry"
  /\ fetchJobsStart([client EXCEPT !.entryOnly = ~client.entryOnly])
  /\ UNCHANGED <<requestVars, pc, upstream, filterVars, classifyVars, pageVars>>

\* the request of call n ends, and fetchJobs resumes after its await
FetchJobsResumes(n) ==
  /\ pc = "clientLive"
  /\ n \in 1..Len(issued)
  /\ issued[n].outcome = InFlight
  /\ \E outcome \in Outcomes(route, issued[n].params, task) :
       /\ client' = fetchJobsEnd(client, outcome)
       /\ issued' = [issued EXCEPT ![n].outcome = outcome]
  /\ UNCHANGED <<requestVars, pc, upstream, filterVars, classifyVars, pageVars>>

NextClient ==
  \/ ClientMount
  \/ ClientTypeQuery
  \/ ClientHandleSearch
  \/ ClientToggleEntry
  \/ \E n \in 1..MaxRequests : FetchJobsResumes(n)

SpecClient == InitClient /\ [][NextClient]_vars

(************************* C1 **********************************************)
\* the upstream's answer is a failure: a network error, a non-success
\* status, an unparsable body, or a body without the expected top-level array
lacksArray(k, body) ==
  IF k = "remoteok" THEN body.t # "array"
  ELSE body.t # "object" \/ body.list.t # "array"

upstreamFailure(k, res) ==
  \/ res.net = "error"
  \/ ~res.ok
  \/ res.body.t = "unparsable"
  \/ lacksArray(k, res.body)

AdapterRan == pc = "adapterDone"

\* C1: whatever way the upstream fails (network error, non-success status,
\* unparsable body, body without the expected array), the adapter resolves -
\* never rejects - to the empty job sequence.  (For the Remotive adapter of
\* the full variant: when each of its sub-requests fails.)
C1_FailureGivesEmpty ==
  AdapterRan =>
    LET k == upstream.adapter
    IN  (\A i \in 1..Len(upstream.ress) : upstreamFailure(k, upstream.ress[i]))
           => task[k].state = "fulfilled" /\ task[k].value = <<>>

(************************* C5 **********************************************)
NonEmptyString(x) == x.t = "string" /\ Len(x.v) > 0

\* C5: every job an adapter produces, whatever fields the upstream record
\* omits, has id, title, company, location, source and url each a non-empty
\* string.
C5_RequiredFieldsNonEmpty ==
  AdapterRan =>
    \A i \in 1..Len(task[upstream.adapter].value) :
       LET job == task[upstream.adapter].value[i]
       IN  /\ NonEmptyString(job.id) /\ NonEmptyString(job.title)
           /\ NonEmptyString(job.company) /\ NonEmptyString(job.location)
           /\ NonEmptyString(job.source) /\ NonEmptyString(job.url)

(************************* C2 **********************************************)
Responded == pc = "responded"

\* how often job j occurs in the sequence
count(jobs, j) == Cardinality({i \in 1..Len(jobs) : jobs[i] = j})

\* the jobs of the response are those the adapters returned, none lost and
\* none added
carriesAllResults ==
  \A k \in AdapterKeys : \A i \in 1..Len(task[k].value) :
     LET j == task[k].value[i]
         given == count(task["remoteok"].value, j) + count(task["remotive"].value, j)
                  + count(task["arbeitnow"].value, j) + count(task["jobicy"].value, j)
     IN  count(response.jobs, j) = given

FailedSet == {k \in AdapterKeys : task[k].failed}

\* C2: whichever adapters fail in a run, an envelope carries for each adapter
\* the number of jobs it returned, 0 for a failed one; the endpoints that do
\* not filter (settled, full) answer with every job of the other adapters;
\* and when all four fail GET answers total 0 and all counts 0.
C2_PartialFailureTolerated ==
  Responded =>
    /\ response.kind = "ok" =>
         \A k \in AdapterKeys :
            /\ response.sources[k] = Len(task[k].value)
            /\ k \in FailedSet => response.sources[k] = 0
    /\ route \in {"settled", "full"} =>
         /\ response.kind = "ok"
         /\ carriesAllResults
         /\ response.total = Len(response.jobs)
    /\ FailedSet = AdapterKeys =>
         /\ response.kind = "ok"
         /\ response.total = 0
         /\ response.jobs = <<>>
         /\ \A k \in AdapterKeys : response.sources[k] = 0

\* a run in which some adapters failed and others returned jobs
C2_Witness ==
  /\ Responded
  /\ route \in {"settled", "full"}
  /\ FailedSet # {} /\ FailedSet # AdapterKeys
  /\ \E k \in AdapterKeys \ FailedSet : Len(task[k].value) > 0
  /\ response.total > 0

(************************* C3 **********************************************)
\* C3: GET always answers with an envelope, {jobs, total, sources} or the
\* degraded one, whatever the upstream payloads and the query string; it
\* never ends with an uncaught exception.
C3_AlwaysAnEnvelope ==
  Responded => response.kind \in {"ok", "degraded"}

(************************* C4 **********************************************)
Succeeded == AdapterKeys \ FailedSet

\* C4 as claimed: with exactly one adapter succeeding, total equals that
\* adapter's count, in every variant of the route.
C4_TotalIsTheOneCount ==
  (Responded /\ Cardinality(Succeeded) = 1) =>
     \A k \in Succeeded : response.kind = "ok" /\ response.total = response.sources[k]

\* C4 as amended: with exactly one adapter succeeding, the endpoints that do
\* not filter answer total = that adapter's count; the query route filters
\* before it counts, so an envelope of it has total <= that adapter's count.
C4_TotalBoundedByTheOneCount ==
  (Responded /\ Cardinality(Succeeded) = 1) =>
     \A k \in Succeeded :
        /\ route \in {"settled", "full"} =>
             response.kind = "ok" /\ response.total = response.sources[k]
        /\ (route = "query" /\ response.kind = "ok") =>
             response.total <= response.sources[k]

\* the query route, one adapter succeeding, and a job of it filtered out
C4_Witness ==
  /\ Responded /\ Cardinality(Succeeded) = 1
  /\ route = "query" /\ response.kind = "ok"
  /\ \E k \in Succeeded : response.total < response.sources[k]

(************************* C6 **********************************************)
\* C6: when the ids given by each upstream are pairwise distinct, no two jobs
\* of one response share an id.
C6_IdsUniqueInResponse ==
  (Responded /\ response.kind = "ok" /\ \A k \in AdapterKeys : task[k].distinct) =>
     \A i, j \in 1..Len(response.jobs) :
        i # j => response.jobs[i].id # response.jobs[j].id

(************************* C7 **********************************************)
Filtered == pc = "filtered"

\* job passes every stage of the pipeline that is active
passesActiveStages(pl, job, f) ==
  \A i \in 1..Len(Stages(pl)) :
     StageActive(pl, Stages(pl)[i], f) => StageMatch(pl, Stages(pl)[i], job, f) = "true"

\* a job whose title, company and location are strings and whose tags are an
\* array of strings, as the Job interface declares
WellTyped(job) ==
  /\ job.title.t = "string" /\ job.company.t = "string" /\ job.location.t = "string"
  /\ job.tags.t = "array" /\ \A i \in 1..Len(job.tags.v) : job.tags.v[i].t = "string"

\* C7: the pipeline is an AND-chain.  Its output is exactly the input jobs
\* that pass every active stage, in input order; a toggle that is false and
\* an empty query, location or source switch their stage off, so with no
\* stage active the output is the input.  (It returns for every input whose
\* jobs are well typed.)
C7_FilterIsAndChain ==
  Filtered =>
    /\ ~filteredJobs.threw =>
         filteredJobs.jobs =
           SelectSeq(allJobs, LAMBDA j : passesActiveStages(pipeline, j, settings))
    /\ (\A i \in 1..Len(allJobs) : WellTyped(allJobs[i])) => ~filteredJobs.threw
    /\ (pipeline # "server" /\ ~settings.dataOnly) => ~StageActive(pipeline, "data", settings)
    /\ ~settings.entryOnly => ~StageActive(pipeline, "entry", settings)
    /\ ~settings.usOnly => ~StageActive(pipeline, "us", settings)
    /\ settings.query = <<>> => ~StageActive(pipeline, "query", settings)
    /\ settings.location = <<>> => ~StageActive(pipeline, "location", settings)
    /\ settings.source = <<>> => ~StageActive(pipeline, "source", settings)
    /\ (\A i \in 1..Len(Stages(pipeline)) :
           ~StageActive(pipeline, Stages(pipeline)[i], settings))
         => filteredJobs = Kept(allJobs)

activeStages(pl, f) == SelectSeq(Stages(pl), LAMBDA st : StageActive(pl, st, f))

\* two stages are active, one job is dropped and one is kept
C7_Witness ==
  /\ Filtered /\ ~filteredJobs.threw
  /\ Len(activeStages(pipeline, settings)) >= 2
  /\ Len(filteredJobs.jobs) > 0 /\ Len(filteredJobs.jobs) < Len(allJobs)

(************************* C8 **********************************************)
\* the orders in which the elements of seq can be arranged
Orderings(seq) ==
  {[i \in 1..Len(seq) |-> seq[p[i]]] :
     p \in {q \in [1..Len(seq) -> 1..Len(seq)] : \A i, j \in 1..Len(seq) : q[i] = q[j] => i = j}}

\* C8: the order of the stages does not affect the final set.  Applying the
\* active stages in any order gives, whenever both orders return, the set of
\* jobs that the order of the code gives, and for well-typed jobs every order
\* returns.
C8_StageOrderIrrelevant ==
  Filtered =>
    \A order \in Orderings(activeStages(pipeline, settings)) :
       LET permuted == applyStages(pipeline, order, Kept(allJobs), settings)
       IN  /\ (~permuted.threw /\ ~filteredJobs.threw) =>
                Range(permuted.jobs) = Range(filteredJobs.jobs)
           /\ (\A i \in 1..Len(allJobs) : WellTyped(allJobs[i])) => ~permuted.threw

\* three stages are active and each of two of them drops a job the other keeps
C8_Witness ==
  /\ Filtered /\ ~filteredJobs.threw
  /\ Len(activeStages(pipeline, settings)) >= 3
  /\ \E s1, s2 \in Range(activeStages(pipeline, settings)) : \E i, j \in 1..Len(allJobs) :
        /\ s1 # s2
        /\ StageMatch(pipeline, s1, allJobs[i], settings) = "false"
        /\ StageMatch(pipeline, s2, allJobs[i], settings) = "true"
        /\ StageMatch(pipeline, s1, allJobs[j], settings) = "true"
        /\ StageMatch(pipeline, s2, allJobs[j], settings) = "false"

(************************* C10 *********************************************)
\* the jobs of the run that pass the stages of the query route other than
\* the entry-level stage
passingOtherStages ==
  applyStages("server", <<"data", "query", "location", "source">>,
              Kept(concatResults(task, 1)), serverSettings(params))

\* C10: entry-level filtering of the query route is on by default.  Unless
\* the entry parameter is exactly "false", every job of the response is
\* entry level; when it is "false" the stage is skipped: the response holds
\* every job that passes the other stages.
C10_EntryFilterDefaultOn ==
  (Responded /\ route = "query" /\ response.kind = "ok") =>
     /\ params.entry # Str(s_false) =>
          \A i \in 1..Len(response.jobs) : isEntryLevel(response.jobs[i])
     /\ params.entry = Str(s_false) =>
          Range(response.jobs) = Range(passingOtherStages.jobs)

\* entry=False (not the exact string "false"): a senior data role was
\* aggregated and is not in the response, which holds another job
C10_Witness ==
  /\ Responded /\ route = "query" /\ response.kind = "ok"
  /\ params.entry = Str(s_False)
  /\ response.total > 0
  /\ \E k \in AdapterKeys : \E i \in 1..Len(task[k].value) :
        /\ dataStage(task[k].value[i]) = "true"
        /\ ~isEntryLevel(task[k].value[i])
(************************* C11 *********************************************)
Answered(v) == v \in {"true", "false"}

\* isSeniorRole as C11 reads it: a seniority keyword in the lower-cased title
isSeniorRole(keywords, j) == someIncludes(keywords, toLowerCase(j.title.v))

\* the composite of C11 over the text a classifier scans
entryLevelComposite(keywords, j, text) ==
  IF isSeniorRole(keywords, j) THEN FALSE
  ELSE \/ someIncludes(ENTRY_LEVEL_KEYWORDS, text)
       \/ /\ ~someIncludes(keywords, text)
          /\ ~includes(text, s_mid) /\ ~includes(text, s_intermediate)

\* `${titleLower} ${typeLower}` of the query route
scannedText(j) ==
  toLowerCase(j.title.v) \o <<" ">>
    \o (IF IsNullish(j.type) THEN <<>> ELSE toLowerCase(j.type.v))

\* C11 for isEntryLevel of the query route
C11_ServerComposite ==
  Answered(verdict.isEntryLevel) =>
    ((verdict.isEntryLevel = "true")
       <=> entryLevelComposite(SENIOR_KEYWORDS, candidate, scannedText(candidate)))

\* C11 for the entry level filter of the client page
C11_PageComposite ==
  Answered(verdict.pageEntry) =>
    ((verdict.pageEntry = "true")
       <=> entryLevelComposite(CLIENT_SENIOR_KEYWORDS, candidate,
                               toLowerCase(candidate.title.v)))

\* C11: the entry-level classification is false for every job with a
\* seniority keyword in its lower-cased title; otherwise it is true exactly
\* when an explicit entry-level keyword is present, or neither a seniority
\* keyword nor a mid / intermediate marker is present.  Stated of
\* isEntryLevel of the query route and of the entry level filter of the
\* client page.
C11_EntryLevelComposite == C11_ServerComposite /\ C11_PageComposite

(************************* C12 *********************************************)
\* job carries a posted value that is a date
Dated(j) == Truthy(j.posted) /\ ~getTime(j.posted).nan

\* job i of the response is at least as recent as job j
AtLeastAsRecent(i, j) ==
  getTime(response.jobs[i].posted).ms >= getTime(response.jobs[j].posted).ms

\* C12: in every response whose jobs all carry a posted date, each adjacent
\* pair satisfies posted[i] >= posted[i+1] (most recent first).
C12_FullyDatedIsSorted ==
  (Responded /\ response.kind = "ok"
     /\ \A i \in 1..Len(response.jobs) : Dated(response.jobs[i])) =>
    \A i \in 1..(Len(response.jobs) - 1) : AtLeastAsRecent(i, i + 1)

\* a response of three or more dated jobs that the adapters did not return in
\* order of recency
C12_Witness ==
  /\ Responded /\ response.kind = "ok"
  /\ Len(response.jobs) >= 3
  /\ \A i \in 1..Len(response.jobs) : Dated(response.jobs[i])
  /\ response.jobs # concatResults(task, 1)
  /\ \E i, j \in 1..Len(response.jobs) : ~AtLeastAsRecent(i, j)

(************************* C13 *********************************************)
\* C13: of any two jobs of a response that both carry a posted date, the
\* more recent never comes after the older, also when the response holds
\* jobs without a posted value.
C13_RecentNeverAfterOlder ==
  (Responded /\ response.kind = "ok") =>
    \A i, j \in 1..Len(response.jobs) :
       (i < j /\ Dated(response.jobs[i]) /\ Dated(response.jobs[j])) => AtLeastAsRecent(i, j)

(************************* C14 *********************************************)
\* the lower-cased query is a substring of the lower-cased title, of the
\* lower-cased company, or of a lower-cased tag
matchesQuery(j, query) ==
  LET q == toLowerCase(query)
  IN  \/ includes(toLowerCase(j.title.v), q)
      \/ includes(toLowerCase(j.company.v), q)
      \/ /\ j.tags.t = "array"
         /\ \E i \in 1..Len(j.tags.v) : includes(toLowerCase(j.tags.v[i].v), q)

\* job passes every active stage of the pipeline other than `st`
passesOtherStages(pl, st, j, f) ==
  \A i \in 1..Len(Stages(pl)) :
     (Stages(pl)[i] # st /\ StageActive(pl, Stages(pl)[i], f))
        => StageMatch(pl, Stages(pl)[i], j, f) = "true"

\* C14: the query stage keeps a job exactly when the lower-cased query is a
\* substring of its lower-cased title, company or one of its lower-cased
\* tags: of the jobs that pass the other active stages, the output holds
\* those that match the query and no other.
C14_QueryStageMatches ==
  (Filtered /\ ~filteredJobs.threw /\ StageActive(pipeline, "query", settings)) =>
    \A i \in 1..Len(allJobs) :
       passesOtherStages(pipeline, "query", allJobs[i], settings) =>
         ((allJobs[i] \in Range(filteredJobs.jobs))
            <=> matchesQuery(allJobs[i], settings.query))

\* the query Tableau keeps a job that has the tag and mentions it neither in
\* title nor in company, and drops a job that mentions it nowhere
C14_Witness ==
  /\ Filtered /\ ~filteredJobs.threw
  /\ toLowerCase(settings.query) = toLowerCase(q_Tableau)
  /\ \E i \in 1..Len(filteredJobs.jobs) :
        LET j == filteredJobs.jobs[i]
        IN  /\ ~includes(toLowerCase(j.title.v), toLowerCase(q_Tableau))
            /\ ~includes(toLowerCase(j.company.v), toLowerCase(q_Tableau))
            /\ \E t \in 1..Len(j.tags.v) : j.tags.v[t] = Str(g_Tableau)
  /\ \E i \in 1..Len(allJobs) :
        /\ allJobs[i] \notin Range(filteredJobs.jobs)
        /\ passesOtherStages(pipeline, "query", allJobs[i], settings)

(************************* C15 *********************************************)
\* the request asks for nothing but the default: data roles, entry level
DefaultFiltering ==
  /\ params.entry # Str(s_false)
  /\ params.q = Null /\ params.location = Null /\ params.source = Null

\* title and tags of the job, lower-cased and joined by spaces
titleAndTags(j) ==
  toLowerCase(j.title.v) \o <<" ">>
    \o joinSpace([i \in 1..Len(j.tags.v) |-> toLowerCase(j.tags.v[i].v)])

\* the aggregated jobs that are data roles and entry level, in their order
dataAndEntryLevel(jobs) ==
  SelectSeq(jobs, LAMBDA j : dataStage(j) = "true" /\ entryStage(j) = "true")

\* C15: end to end, with data-role and entry-level filtering active, the
\* response of the query route holds no job with a seniority keyword in its
\* title and no job without a data keyword in title and tags; with no other
\* filter it holds exactly the aggregated jobs that are data roles and entry
\* level, each as often as it was aggregated.
C15_OnlyEntryLevelDataRoles ==
  (Responded /\ route = "query" /\ response.kind = "ok"
     /\ params.entry # Str(s_false)) =>
    /\ \A i \in 1..Len(response.jobs) :
          /\ ~isSeniorRole(SENIOR_KEYWORDS, response.jobs[i])
          /\ someIncludes(DATA_KEYWORDS, titleAndTags(response.jobs[i]))
    /\ DefaultFiltering =>
          LET expected == dataAndEntryLevel(concatResults(task, 1))
          IN  /\ Len(response.jobs) = Len(expected)
              /\ \A i \in 1..Len(expected) :
                    count(response.jobs, expected[i]) = count(expected, expected[i])

\* Senior BI Manager and Junior SQL Analyst were aggregated and only the
\* second is in the response
C15_Witness ==
  /\ Responded /\ route = "query" /\ response.kind = "ok" /\ DefaultFiltering
  /\ \E i \in 1..Len(concatResults(task, 1)) :
        concatResults(task, 1)[i].title = Str(t_SeniorBIManager)
  /\ Len(response.jobs) = 1
  /\ response.jobs[1].title = Str(t_JuniorSQLAnalyst)

(************************* C16 *********************************************)
\* the display name the adapter k gives its jobs as source
displayName(k) ==
  CASE k = "remoteok" -> s_RemoteOK
    [] k = "remotive" -> s_Remotive
    [] k = "arbeitnow" -> s_Arbeitnow
    [] k = "jobicy" -> s_Jobicy

\* every toggle is off, the query is empty and a source is selected
OnlySourceSelected ==
  /\ pc = "ready" /\ ~filteredJobs.threw
  /\ ~settings.usOnly /\ ~settings.dataOnly /\ ~settings.entryOnly
  /\ settings.query = s_empty
  /\ settings.source # s_empty

\* C16: the sources the client page offers for selection are source display
\* names, and with all toggles off and an empty query, a selected source
\* (offered because its reported count is greater than zero) displays at
\* least one job: exactly the loaded jobs of that adapter.
C16_OfferedSourceShowsItsJobs ==
  /\ pc = "ready" =>
       \A i \in 1..Len(availableSources) :
          \E k \in AdapterKeys : availableSources[i] = displayName(k)
  /\ OnlySourceSelected =>
       /\ Len(filteredJobs.jobs) > 0
       /\ \E k \in AdapterKeys :
             /\ response.sources[k] > 0
             /\ filteredJobs.jobs = SelectSeq(allJobs, LAMBDA j : j.source = Str(displayName(k)))

(************************* C17 *********************************************)
AllSettled == \A k \in AdapterKeys : task[k].state = "fulfilled"

\* a settled adapter task keeps its result: it is neither run again nor
\* cancelled
SettledTasksStay ==
  \A k \in AdapterKeys : task[k].state = "fulfilled" => task'[k] = task[k]

\* C17: the response of a request is produced only after all four adapter
\* tasks have settled: GET has no response, and cannot build one, while a
\* task is pending, whatever the order in which the adapters complete; and
\* no task is cancelled or restarted within the request.
C17_RespondsAfterAllSettle ==
  /\ [](response # NoResponse => AllSettled)
  /\ []((pc = "fetching" /\ ~AllSettled) => ~ENABLED GETRespond)
  /\ [][SettledTasksStay]_vars

\* some adapters have settled, another is pending, and there is no response
C17_Witness ==
  /\ pc = "fetching"
  /\ \E k \in AdapterKeys : task[k].state = "fulfilled" /\ ~task[k].failed
  /\ \E k \in AdapterKeys : task[k].state = "fulfilled" /\ task[k].failed
  /\ \E k \in AdapterKeys : task[k].state = "pending"
  /\ response = NoResponse

(************************* C18 *********************************************)
\* the adapters that have settled with a result of their own
SettledWithSuccess == {k \in AdapterKeys : task[k].state = "fulfilled" /\ ~task[k].failed}

\* one adapter has succeeded and no other has: each other one has failed or
\* is still waiting for its upstream
OneSucceededSoFar == pc = "fetching" /\ Cardinality(SettledWithSuccess) = 1

ResponseProduced == response = NoResponse /\ response' # NoResponse

CategoryAnswered(res) ==
  /\ res.net # "error"
  /\ res.body.t = "object"
  /\ ListOf(res.body).t = "array"
  /\ ~mapThrows(ListOf(res.body).v)

\* a category sub-request that failed: network error, unparsable body, body
\* without a jobs array, or a null or non-object body
CategoryFailed(res) ==
  \/ res.net = "error"
  \/ res.body.t = "unparsable"
  \/ res.body.t # "object"
  \/ ListOf(res.body).t # "array"

\* the jobs of the categories that answered, each tagged with its category
RECURSIVE answeredCategoryJobs(_, _)
answeredCategoryJobs(ress, c) ==
  IF c > Len(RemotiveCategories) THEN <<>>
  ELSE (IF CategoryAnswered(ress[c])
          THEN LET items == ListOf(ress[c].body).v
               IN  [i \in 1..Len(items) |->
                      RemotiveJob("full", items[i], s_empty, RemotiveCategories[c])]
          ELSE <<>>)
       \o answeredCategoryJobs(ress, c + 1)

MultiCategoryRun ==
  /\ pc = "adapterDone"
  /\ route = "full"
  /\ upstream.adapter = "remotive"
  /\ \A c \in 1..Len(RemotiveCategories) :
       CategoryAnswered(upstream.ress[c]) \/ CategoryFailed(upstream.ress[c])

\* C19: in the multi-category Remotive adapter the failure of one category
\* sub-request removes only that category's jobs; every job of the categories
\* that answered is in the adapter's result, tagged with its own category.
C19_OnlyFailedCategoryLost ==
  MultiCategoryRun =>
    \A j \in Range(answeredCategoryJobs(upstream.ress, 1)) :
      count(task["remotive"].value, j) >= count(answeredCategoryJobs(upstream.ress, 1), j)

(************************* C20 *********************************************)
\* the four adapters' results, one after the other
adapterResults ==
  task["remoteok"].value \o task["remotive"].value
    \o task["arbeitnow"].value \o task["jobicy"].value

\* ys holds the elements of xs, each as often as xs does, and no other
isPermutation(xs, ys) ==
  /\ Len(xs) = Len(ys)
  /\ \A x \in Range(xs) \cup Range(ys) : count(xs, x) = count(ys, x)

sumOfSources ==
  response.sources["remoteok"] + response.sources["remotive"]
    + response.sources["arbeitnow"] + response.sources["jobicy"]

FullFetchAnswered ==
  pc = "responded" /\ route \in {"settled", "full"} /\ response.kind = "ok"

\* C20: in the endpoints that do not filter, merge and sort conserve jobs:
\* the jobs of the response are a permutation of the concatenation of the four
\* adapters' results, and total is the sum of the four sources counts.
C20_MergeAndSortConserveJobs ==
  FullFetchAnswered =>
    /\ isPermutation(adapterResults, response.jobs)
    /\ response.total = sumOfSources

\* the sort has moved jobs: at least three jobs of several adapters, answered
\* in another order than the adapters are concatenated
C20_Witness ==
  /\ FullFetchAnswered
  /\ response.total >= 3
  /\ response.jobs # adapterResults
  /\ Cardinality({k \in AdapterKeys : response.sources[k] > 0}) >= 3

(************************* C21 *********************************************)
RequestsInFlight == {n \in 1..Len(issued) : issued[n].outcome = InFlight}

\* every call made so far was answered by the server with its envelope
EveryRequestAnswered ==
  /\ Len(issued) > 0
  /\ \A n \in 1..Len(issued) :
       issued[n].outcome = answerOf(route, issued[n].params, task)

\* the page shows the jobs and sources of the envelope that answered call n
ShowsAnswerOf(n) ==
  /\ client.jobs = issued[n].outcome.data.jobs
  /\ client.sources = issued[n].outcome.data.sources

LoadingWhileInFlight == RequestsInFlight # {} => client.loading

LatestAnswerShown == EveryRequestAnswered => ShowsAnswerOf(Len(issued))

\* C21: in the server-filtering pages, when fetchJobs requests overlap and
\* their responses arrive in any order, the page shows the jobs and sources
\* of the most recently issued request once no request is in flight, and
\* loading is true whenever a request is in flight.
C21_LatestRequestWins ==
  (pc = "clientLive" /\ client.page \in SearchPages) =>
    /\ LoadingWhileInFlight
    /\ LatestAnswerShown

(************************* C22 *********************************************)
\* call n of fetchJobs ends in this step
CallEnds(n) == issued[n].outcome = InFlight /\ issued'[n].outcome # InFlight

\* the request of call n failed: a network error or a body that is no JSON
RequestFailed(n) == issued'[n].outcome \in {FetchRejects, JsonRejects}

DisplayUnchanged ==
  /\ client'.jobs = client.jobs
  /\ client'.sources = client.sources
  /\ client'.total = client.total

\* C22: every fetchJobs call of a page ends with loading set back to false,
\* whether its request succeeded or failed, and a failed request (network
\* error or non-JSON body) leaves the displayed jobs and sources unchanged.
C22_FailureKeepsDisplay ==
  [][\A n \in 1..Len(issued) :
       CallEnds(n) => (~client'.loading /\ (RequestFailed(n) => DisplayUnchanged))]_vars

\* a page that shows the jobs of an answered request after a later request
\* of it has failed
C22_Witness ==
  /\ pc = "clientLive"
  /\ \E m, n \in 1..Len(issued) :
       /\ m < n
       /\ issued[m].outcome = answerOf(route, issued[m].params, task)
       /\ issued[n].outcome \in {FetchRejects, JsonRejects}
  /\ client.jobs.t = "array" /\ Len(client.jobs.v) > 0
  /\ ~client.loading
=============================================================================
